---- MODULE Spec2Model ----
(***************************************************************************)
(* A model of edtext: ed-style line addressing over an in-memory text.     *)
(*                                                                         *)
(* A Python str is a sequence of one-character strings.  An optional       *)
(* value (Python None / a value) is a sequence of length 0 or 1.          *)
(***************************************************************************)
EXTENDS Integers, Sequences, FiniteSets, TLC

VARIABLES
    text,         \* EdText._text of the receiving object
    lines,        \* EdText._lines of the receiving object
    pc,           \* where the call is: "idle", "loop", "returned", "raised"
    range_exprs,  \* the arguments of the running ranges()/_line_numbers() call
    pos,          \* how many of range_exprs the for loop has consumed
    numbers,      \* _line_numbers: the local list `numbers`
    start,        \* _line_numbers: the local `start` (the cursor)
    start_idx,    \* _line_numbers: the local `start_idx` of the last iteration
    end_idx,      \* _line_numbers: the local `end_idx` of the last iteration
    error,        \* the exception the call raised, if any
    result,       \* the EdText the call returned, if any
    expr,         \* the argument of a direct Range.parse call
    parsed        \* the outcome of that Range.parse call

vars == <<text, lines, pc, range_exprs, pos, numbers, start, start_idx,
          end_idx, error, result, expr, parsed>>

None == <<>>
Some(x) == <<x>>

----------------------------------------------------------------------------
(* Bounds of the model.                                                    *)

MaxLen == 4       \* longest string handed to Range.parse directly
MaxLines == 3     \* most lines of a document built from the small line set
MaxText == 2      \* longest text a document is constructed from
MaxExprs == 2     \* most range expressions in one ranges() call

----------------------------------------------------------------------------
(* Characters.                                                             *)

Digits == {"0", "1", "2", "3", "4", "5", "6", "7", "8", "9"}

DigitVal(c) ==
    CASE c = "0" -> 0 [] c = "1" -> 1 [] c = "2" -> 2 [] c = "3" -> 3
      [] c = "4" -> 4 [] c = "5" -> 5 [] c = "6" -> 6 [] c = "7" -> 7
      [] c = "8" -> 8 [] c = "9" -> 9

\* What \s matches among the characters of an expression (ExprChars below
\* holds no other whitespace than the space).
Whitespace == {" "}

\* The character class [ +-] of the `plus` group.
PlusChars == {" ", "+", "-"}

RECURSIVE SpanOf(_, _, _)
\* The index after the longest run of characters of `set` in s from index i:
\* a greedy \s*, \d+ or [ +-]+.
SpanOf(s, i, set) ==
    IF i <= Len(s) /\ s[i] \in set THEN SpanOf(s, i + 1, set) ELSE i

RECURSIVE IntOf(_, _, _)
\* int() of the decimal digits s[i..j-1].
IntOf(s, i, j) ==
    IF j <= i THEN 0 ELSE 10 * IntOf(s, i, j - 1) + DigitVal(s[j - 1])

RECURSIVE RegexEnd(_, _)
\* The index after the group (?P<regex>/[^/]+?(/|$)) once "/" and one other
\* character are consumed and the lazy [^/]+? stands before index j: it stops
\* at the first "/" (consumed) or at $, the end of the string.
RegexEnd(s, j) ==
    IF j > Len(s) THEN j
    ELSE IF s[j] = "/" THEN j + 1
    ELSE RegexEnd(s, j + 1)

RECURSIVE Strip(_, _)
\* str.strip(c)
Strip(s, c) ==
    IF s # <<>> /\ Head(s) = c THEN Strip(Tail(s), c)
    ELSE IF s # <<>> /\ s[Len(s)] = c THEN Strip(SubSeq(s, 1, Len(s) - 1), c)
    ELSE s

\* str.replace(" ", "")
NoSpaces(s) == SelectSeq(s, LAMBDA c : c # " ")

\* s[i:] for a one-based index i
From(s, i) == SubSeq(s, i, Len(s))

----------------------------------------------------------------------------
(* Addr                                                                    *)

\* Addr(): the dataclass defaults
NewAddr == [number |-> None, regex |-> None, last |-> FALSE, delta |-> 0]

\* The optional first group of the pattern at index i:
\* number | regex | last | "." | nothing.
AddrBase(s, i) ==
    IF i > Len(s) THEN [kind |-> "none", end |-> i]
    ELSE IF s[i] \in Digits THEN [kind |-> "number", end |-> SpanOf(s, i, Digits)]
    ELSE IF s[i] = "/" /\ i + 1 <= Len(s) /\ s[i + 1] # "/"
        THEN [kind |-> "regex", end |-> RegexEnd(s, i + 2)]
    ELSE IF s[i] = "$" THEN [kind |-> "last", end |-> i + 1]
    ELSE IF s[i] = "." THEN [kind |-> "dot", end |-> i + 1]
    ELSE [kind |-> "none", end |-> i]

\* The optional second group at index i (the whitespace before it consumed):
\* delta = [+-]?\s*\d+, else plus = [ +-]+, else nothing.
AddrDelta(s, i) ==
    LET signed == i <= Len(s) /\ s[i] \in {"+", "-"}
        d == IF signed THEN SpanOf(s, i + 1, Whitespace) ELSE i
    IN  IF d <= Len(s) /\ s[d] \in Digits
            THEN [kind |-> "delta", end |-> SpanOf(s, d, Digits)]
        ELSE IF i <= Len(s) /\ s[i] \in PlusChars
            THEN [kind |-> "plus", end |-> SpanOf(s, i, PlusChars)]
        ELSE [kind |-> "none", end |-> i]

\* int(m["delta"].replace(" ", "")) for the text g of the delta group
DeltaValue(g) ==
    IF Head(g) = "-" THEN 0 - IntOf(g, 2, Len(g) + 1)
    ELSE IF Head(g) = "+" THEN IntOf(g, 2, Len(g) + 1)
    ELSE IntOf(g, 1, Len(g) + 1)

\* The Addr after the first group b, which began at index i0.
AddrOfBase(s, i0, b) ==
    CASE b.kind = "number" -> [NewAddr EXCEPT !.number = Some(IntOf(s, i0, b.end))]
      [] b.kind = "regex" ->
            [NewAddr EXCEPT !.regex = Some(Strip(SubSeq(s, i0, b.end - 1), "/"))]
      [] b.kind = "last" -> [NewAddr EXCEPT !.last = TRUE]
      [] OTHER -> NewAddr

\* The `plus` branch: plus is the group's text without its spaces.
AddrPlus(s, a0, end, plus) ==
    IF Cardinality({plus[n] : n \in 1..Len(plus)}) # 1
    THEN [error |-> Some([kind |-> "Invalid address delta", text |-> s]),
          addr |-> a0, rest |-> s]
    ELSE [error |-> None,
          addr |-> [a0 EXCEPT !.delta = Len(plus) * (IF plus[1] = "+" THEN 1 ELSE -1)],
          rest |-> From(s, end)]

\* The delta of the second group d, which began at index i, and the result.
AddrFinish(s, a0, i, d) ==
    CASE d.kind = "delta" ->
            [error |-> None,
             addr |-> [a0 EXCEPT !.delta = DeltaValue(NoSpaces(SubSeq(s, i, d.end - 1)))],
             rest |-> From(s, d.end)]
      [] d.kind = "plus" -> AddrPlus(s, a0, d.end, NoSpaces(SubSeq(s, i, d.end - 1)))
      [] OTHER -> [error |-> None, addr |-> a0, rest |-> From(s, d.end)]

AddrAfterBase(s, a0, i) == AddrFinish(s, a0, i, AddrDelta(s, i))

AddrAfterSpace(s, i0, b) ==
    AddrAfterBase(s, AddrOfBase(s, i0, b), SpanOf(s, b.end, Whitespace))

AddrAt(s, i0) == AddrAfterSpace(s, i0, AddrBase(s, i0))

\* Addr.parse(expr): the Addr and the text not consumed, or the ValueError.
AddrParse(s) == AddrAt(s, SpanOf(s, 1, Whitespace))

\* Addr.is_relative
is_relative(addr) == addr.number = None /\ addr.regex = None /\ ~addr.last

----------------------------------------------------------------------------
(* Range                                                                   *)

\* Range(start=start)
NewRange(addr) == [start |-> addr, end |-> None, from0 |-> TRUE]

\* Range.parse after the separator, without the check of what is left.
RangeEnd_NoTail(r, b, rest) ==
    IF b.error # None THEN [error |-> b.error, r |-> r, rest |-> rest]
    ELSE [error |-> None, r |-> [r EXCEPT !.end = Some(b.addr)], rest |-> b.rest]

\* Range.parse after the separator: from0 is set and b is the outcome of
\* Addr.parse on what follows the separator.
RangeEnd(r, b, rest) ==
    IF b.error # None THEN [error |-> b.error, r |-> r, rest |-> rest]
    ELSE IF b.rest # <<>>
        THEN [error |-> Some([kind |-> "Invalid range tail", text |-> b.rest]),
              r |-> [r EXCEPT !.end = Some(b.addr)], rest |-> b.rest]
    ELSE [error |-> None, r |-> [r EXCEPT !.end = Some(b.addr)], rest |-> b.rest]

\* Range.parse after the start address, a being the outcome of Addr.parse.
RangeStart(s, a) ==
    IF a.error # None THEN [error |-> a.error, r |-> NewRange(a.addr), rest |-> s]
    ELSE IF a.rest = <<>> THEN [error |-> None, r |-> NewRange(a.addr), rest |-> a.rest]
    ELSE IF a.rest[1] \notin {",", ";"}
        THEN [error |-> Some([kind |-> "Invalid range", text |-> s]),
              r |-> NewRange(a.addr), rest |-> a.rest]
    ELSE RangeEnd([NewRange(a.addr) EXCEPT !.from0 = (a.rest[1] = ",")],
                  AddrParse(Tail(a.rest)), a.rest)

\* Range.parse(expr): the Range, or the ValueError; `rest` is the local
\* `rest` when the function returns or raises.
RangeParse(s) == RangeStart(s, AddrParse(s))

----------------------------------------------------------------------------
(* EdText                                                                  *)

RECURSIVE SplitFrom(_, _, _)
\* str.splitlines(keepends=True) of t[i..], `cur` being the line under way:
\* a line ends after "\n", "\r" or "\r\n"; a last line with no terminator
\* is kept.
SplitFrom(t, i, cur) ==
    IF i > Len(t) THEN (IF cur = <<>> THEN <<>> ELSE <<cur>>)
    ELSE IF t[i] = "\r" /\ i < Len(t) /\ t[i + 1] = "\n"
        THEN <<cur \o <<"\r", "\n">>>> \o SplitFrom(t, i + 2, <<>>)
    ELSE IF t[i] \in {"\n", "\r"}
        THEN <<Append(cur, t[i])>> \o SplitFrom(t, i + 1, <<>>)
    ELSE SplitFrom(t, i + 1, Append(cur, t[i]))

splitlines(t) == SplitFrom(t, 1, <<>>)

RECURSIVE Join(_)
\* "".join(ls)
Join(ls) == IF ls = <<>> THEN <<>> ELSE Head(ls) \o Join(Tail(ls))

\* EdText(text): __init__ with lines=None
EdText(t) == [text |-> t, lines |-> splitlines(t)]

\* from_lines joining the lines with a newline between them.
RECURSIVE JoinWith(_, _)
JoinWith(ls, sep) ==
    IF ls = <<>> THEN <<>>
    ELSE IF Len(ls) = 1 THEN Head(ls)
    ELSE Head(ls) \o sep \o JoinWith(Tail(ls), sep)

from_lines_sep(ls) == [text |-> JoinWith(ls, <<"\n">>), lines |-> ls]

\* EdText.from_lines(lines)
from_lines(ls) == [text |-> Join(ls), lines |-> ls]

\* re.search(regex, line) for a regex of literal characters: the regex
\* occurs somewhere in the line.
Search(regex, line) ==
    \E i \in 1..(Len(line) - Len(regex) + 1) :
        SubSeq(line, i, i + Len(regex) - 1) = regex

\* The zero-based index at which the slice ls[st:] begins.
SliceStart(ls, st) ==
    IF st < 0 THEN (IF Len(ls) + st < 0 THEN 0 ELSE Len(ls) + st)
    ELSE IF st > Len(ls) THEN Len(ls)
    ELSE st

RECURSIVE FirstMatch(_, _, _, _)
\* The for loop of _resolve_addr over enumerate(...): the element at
\* zero-based index i carries the number num; the number of the first line
\* the regex is found in, or None when the loop runs out.
FirstMatch(ls, regex, i, num) ==
    IF i >= Len(ls) THEN None
    ELSE IF Search(regex, ls[i + 1]) THEN Some(num)
    ELSE FirstMatch(ls, regex, i + 1, num + 1)

\* The outcome of the regex branch, m being the number of the matching line.
Found(addr, m) ==
    IF m = None
    THEN [error |-> Some([kind |-> "Pattern not found", text |-> addr.regex[1]]),
          res |-> 0]
    ELSE [error |-> None, res |-> m[1] + addr.delta]

\* EdText._resolve_addr(addr, start): the one-based line index, or the
\* ValueError.
_resolve_addr(ls, addr, st) ==
    IF addr.number # None
        THEN [error |-> None, res |-> addr.number[1] + addr.delta]
    ELSE IF addr.regex # None
        THEN Found(addr, FirstMatch(ls, addr.regex[1], SliceStart(ls, st), st + 1))
    ELSE IF addr.last
        THEN [error |-> None, res |-> Len(ls) + addr.delta]
    ELSE [error |-> None, res |-> (IF st = 0 THEN 1 ELSE st) + addr.delta]

\* list(range(a, b))
PyRange(a, b) == [n \in 1..(IF b > a THEN b - a ELSE 0) |-> a + n - 1]

\* The end of an iteration that leaves the cursor where it was.
LoopEnd_KeepCursor(loc) ==
    IF loc.start_idx > loc.end_idx
    THEN [loc |-> loc,
          error |-> Some([kind |-> "Invalid range: start > end",
                          start |-> loc.start_idx, end |-> loc.end_idx])]
    ELSE [loc |-> [loc EXCEPT
                      !.numbers = loc.numbers \o PyRange(loc.start_idx - 1, loc.end_idx)],
          error |-> None]

\* The end of an iteration without the order check.
LoopEnd_NoOrder(loc) ==
    [loc |-> [loc EXCEPT
                 !.numbers = loc.numbers \o PyRange(loc.start_idx - 1, loc.end_idx),
                 !.start = loc.end_idx],
     error |-> None]

\* The end of an iteration: the order check, numbers.extend and the new
\* cursor.
LoopEnd(loc) ==
    IF loc.start_idx > loc.end_idx
    THEN [loc |-> loc,
          error |-> Some([kind |-> "Invalid range: start > end",
                          start |-> loc.start_idx, end |-> loc.end_idx])]
    ELSE [loc |-> [loc EXCEPT
                      !.numbers = loc.numbers \o PyRange(loc.start_idx - 1, loc.end_idx),
                      !.start = loc.end_idx],
          error |-> None]

\* The iteration once the end address is resolved to e.
LoopResolved(loc, e) ==
    IF e.error # None THEN [loc |-> loc, error |-> e.error]
    ELSE LoopEnd([loc EXCEPT !.end_idx = e.res])

\* The else branch without the check of a relative end after ",".
LoopTwo_NoCheck(ls, loc, r, range_expr) ==
    LoopResolved(loc, _resolve_addr(ls, r.end[1], loc.start))

\* The else branch of `if r.end is None`; loc.start is the new anchor.
LoopTwo(ls, loc, r, range_expr) ==
    IF is_relative(r.end[1]) /\ r.from0
    THEN [loc |-> loc, error |-> Some([kind |-> "Invalid range", text |-> range_expr])]
    ELSE LoopResolved(loc, _resolve_addr(ls, r.end[1], loc.start))

\* The iteration once the start address is resolved to s.
LoopStart(ls, loc, r, s, range_expr) ==
    IF s.error # None THEN [loc |-> loc, error |-> s.error]
    ELSE IF r.end = None
        THEN LoopEnd([loc EXCEPT !.start_idx = s.res, !.end_idx = s.res])
    ELSE LoopTwo(ls,
                 [loc EXCEPT !.start_idx = s.res,
                             !.start = IF r.from0 THEN 1 ELSE s.res],
                 r, range_expr)

\* The iteration that skips an expression Range.parse rejects.
LoopParsed_Skip(ls, loc, p, range_expr) ==
    IF p.error # None THEN [loc |-> loc, error |-> None]
    ELSE LoopStart(ls, loc, p.r, _resolve_addr(ls, p.r.start, loc.start), range_expr)

\* The iteration once range_expr is parsed to p.
LoopParsed(ls, loc, p, range_expr) ==
    IF p.error # None THEN [loc |-> loc, error |-> p.error]
    ELSE LoopStart(ls, loc, p.r, _resolve_addr(ls, p.r.start, loc.start), range_expr)

\* One iteration of the for loop of _line_numbers on range_expr, from the
\* locals `loc` = [numbers, start, start_idx, end_idx]: the locals after it
\* and the ValueError it raised, if any.
LoopBody(ls, loc, range_expr) ==
    LoopParsed(ls, loc, RangeParse(range_expr), range_expr)

\* ls[i] for a Python list: a negative index counts from the end, an index
\* outside -len..len-1 raises IndexError.
InList(ls, i) == 0 - Len(ls) <= i /\ i < Len(ls)
GetItem(ls, i) == IF i < 0 THEN ls[Len(ls) + i + 1] ELSE ls[i + 1]

\* [self._lines[i] for i in nums]
Pick(ls, nums) == [n \in 1..Len(nums) |-> GetItem(ls, nums[n])]

----------------------------------------------------------------------------
(* The documents and the calls of the model.                               *)

\* The lines of the small documents.
LineSet == {<<"a", "\n">>, <<"b", "\n">>}

\* Documents made with from_lines.
SmallDocs == {from_lines(ls) : ls \in UNION {[1..n -> LineSet] : n \in 0..MaxLines}}

\* Documents made from a text.
TextChars == {"a", "\n", "\r"}

TextDocs == {EdText(t) : t \in UNION {[1..n -> TextChars] : n \in 0..MaxText}}

\* The range expressions tried on those documents; their patterns are made
\* of literal characters.
RangeExprs ==
    { <<"1">>, <<"$">>, <<"/", "a", "/">>, <<"/", "b", "/", "-">>, <<"+">>,
      <<"1", "-", "-">>, <<"$", "+">>,
      <<"1", ",", "2">>, <<"2", ",", "1">>, <<"1", ",", "+">>, <<"1", ";", "+">>,
      <<"/", "a", "/", ",", "+">>, <<"/", "a", "/", ";", "/", "a", "/">>,
      <<"1", "-", "2", ";", "+">>, <<"1", "!">> }

\* The document of the tests: "line 1\n" ... "line 10\n".
ten_lines ==
    EdText(Join(<<
        <<"l", "i", "n", "e", " ", "1", "\n">>,
        <<"l", "i", "n", "e", " ", "2", "\n">>,
        <<"l", "i", "n", "e", " ", "3", "\n">>,
        <<"l", "i", "n", "e", " ", "4", "\n">>,
        <<"l", "i", "n", "e", " ", "5", "\n">>,
        <<"l", "i", "n", "e", " ", "6", "\n">>,
        <<"l", "i", "n", "e", " ", "7", "\n">>,
        <<"l", "i", "n", "e", " ", "8", "\n">>,
        <<"l", "i", "n", "e", " ", "9", "\n">>,
        <<"l", "i", "n", "e", " ", "1", "0", "\n">>
    >>))

\* The range expressions of test_range and test_ranges whose patterns are
\* made of literal characters.
TestExprs ==
    {
      <<"5", ",", "7">>, <<"5">>, <<",", "3">>,
      <<"/", "l", "i", "n", "e", "/", ",", "3">>,
      <<"/", "l", "i", "n", "e", "/", ";", "/", "l", "i", "n", "e", "/">>,
      <<"/", "5", "/", ",", "7">>, <<"/", "5", "/", "+", ",", "7">>,
      <<"5", ",", "/", "7", "/", "-">>, <<"5", ";", "+", "+">>,
      <<"5", ";", ".", "+", "2">>, <<".", ";", ".", "+", "2">>,
      <<"5", ",", "+", "+">>, <<"$", "-", "2", ",", "$">>,
      <<"/", "5", "/", "-", "-", ",", "7">>,
      <<"/", "h", "e", "l", "l", "o", "/">>, <<"5", ",", "3">>,
      <<"/", "5", "/", ",", "/", "3", "/">>, <<"2", "0", ",", "2", "5">>,
      <<"/", "l", "i", "n", "e", " ", "2", "/", "-", "-", "-", "-", "-", ",", "4">>,
      <<"/", "l", "i", "n", "e", " ", "1", "/", "-", ",", "4">>,
      <<"1", ",", "3">>, <<"7", ",", "9">>,
      <<"/", "2", "/", ",", "/", "4", "/">>, <<"/", "8", "/", ",", "$">>,
      <<"/", "4", "/", "+", "1">>,
      <<"/", "l", "i", "n", "e", "/", "+", "+", ",", "/", "9", "/">>,
      <<"/", "l", "i", "n", "e", "/", ";", "+">>
    }

\* The expressions a call on a document with the lines ls draws from.
ExprsFor(ls) == IF ls = ten_lines.lines THEN TestExprs ELSE RangeExprs

\* The documents of the model.
Docs == SmallDocs \cup TextDocs \cup {ten_lines}

Init ==
    /\ \E d \in Docs : text = d.text /\ lines = d.lines
    /\ pc = "idle"
    /\ range_exprs = <<>> /\ pos = 0
    /\ numbers = <<>> /\ start = 0 /\ start_idx = 0 /\ end_idx = 0
    /\ error = None /\ result = None
    /\ expr = <<>> /\ parsed = None

\* doc.ranges(...) is called and _line_numbers starts.  The arguments are
\* drawn one by one as the for loop reaches them: range_exprs holds the ones
\* the loop has consumed.
Ranges ==
    /\ pc = "idle"
    /\ pc' = "loop"
    /\ range_exprs' = <<>> /\ pos' = 0
    /\ numbers' = <<>> /\ start' = 0
    /\ UNCHANGED <<text, lines, start_idx, end_idx, error, result, expr, parsed>>

\* One iteration of the for loop of _line_numbers, on the next argument.
LineNumbersStep ==
    /\ pc = "loop"
    /\ pos < MaxExprs
    /\ \E range_expr \in ExprsFor(lines) :
          /\ range_exprs' = Append(range_exprs, range_expr)
          /\ LET out == LoopBody(lines,
                                 [numbers |-> numbers, start |-> start,
                                  start_idx |-> start_idx, end_idx |-> end_idx],
                                 range_expr)
             IN  /\ numbers' = out.loc.numbers
                 /\ start' = out.loc.start
                 /\ start_idx' = out.loc.start_idx
                 /\ end_idx' = out.loc.end_idx
                 /\ error' = out.error
                 /\ pc' = IF out.error = None THEN "loop" ELSE "raised"
    /\ pos' = pos + 1
    /\ UNCHANGED <<text, lines, result, expr, parsed>>

\* There is no further argument: _line_numbers returns and ranges() builds
\* the new EdText from the lines at those indices; an index outside the
\* list raises IndexError.
RangesReturn ==
    /\ pc = "loop"
    /\ IF \A n \in 1..Len(numbers) : InList(lines, numbers[n])
       THEN /\ result' = Some(from_lines(Pick(lines, numbers)))
            /\ pc' = "returned"
            /\ error' = error
       ELSE /\ error' = Some([kind |-> "IndexError"])
            /\ pc' = "raised"
            /\ result' = result
    /\ UNCHANGED <<text, lines, range_exprs, pos, numbers, start, start_idx,
                   end_idx, expr, parsed>>

\* The caller goes on with the EdText it was given: the next call has the
\* returned object as its receiver, and the finished call's locals are gone.
\* The model follows it while the object is one of its documents.
Chain ==
    /\ pc = "returned"
    /\ result[1] \in Docs
    /\ text' = result[1].text
    /\ lines' = result[1].lines
    /\ pc' = "idle"
    /\ range_exprs' = <<>> /\ pos' = 0
    /\ numbers' = <<>> /\ start' = 0 /\ start_idx' = 0 /\ end_idx' = 0
    /\ result' = None
    /\ UNCHANGED <<error, expr, parsed>>

Next == Ranges \/ LineNumbersStep \/ RangesReturn \/ Chain

Spec == Init /\ [][Next]_vars

----------------------------------------------------------------------------
(* What the claims are stated with.                                        *)

Front(q) == SubSeq(q, 1, Len(q) - 1)

Min(S) == CHOOSE m \in S : \A n \in S : m <= n

\* The consecutive integers a..b as a sequence.
Run(a, b) == [n \in 1..(b - a + 1) |-> a + n - 1]

\* The two resolved lines of one parsed range r with the cursor c: the start
\* address with c, the end address with 1 after "," and with the start line
\* after ";"; a range of one address ends where it starts.
RefLines(ls, r, c) ==
    LET s == _resolve_addr(ls, r.start, c)
        e == IF r.end = None THEN s
             ELSE _resolve_addr(ls, r.end[1], IF r.from0 THEN 1 ELSE s.res)
    IN  [s |-> s.res, e |-> e.res, s_error |-> s.error, e_error |-> e.error]

RECURSIVE RefAll(_, _)
\* The expressions resolved left to right with one cursor that starts at 0
\* and is, after each expression, its end line: the indices start-1..end-1
\* of each expression, concatenated, and the last cursor.
RefAll(ls, exprs) ==
    IF exprs = <<>> THEN [indices |-> <<>>, cursor |-> 0]
    ELSE LET prev == RefAll(ls, Front(exprs))
             l == RefLines(ls, RangeParse(exprs[Len(exprs)]).r, prev.cursor)
         IN  [indices |-> prev.indices \o Run(l.s - 1, l.e - 1), cursor |-> l.e]

\* The last expression the loop consumed, its parse, and the cursor and the
\* indices it started from.
LastExpr == range_exprs[pos]
LastParse == RangeParse(LastExpr)
LastRange == LastParse.r
CursorIn == RefAll(lines, Front(range_exprs)).cursor
NumbersIn == RefAll(lines, Front(range_exprs)).indices
LastLines == RefLines(lines, LastRange, CursorIn)

\* The loop has run at least once and its last iteration raised nothing.
StepOk ==
    /\ pos >= 1
    /\ \/ pc \in {"loop", "returned"}
       \/ pc = "raised" /\ error[1].kind = "IndexError"

\* The last iteration of the loop raised.
StepRaised == pos >= 1 /\ pc = "raised" /\ error[1].kind # "IndexError"

TwoAddresses == LastParse.error = None /\ LastRange.end # None

Str_5_3 == <<"5", ",", "3">>
Str_p5_p3 == <<"/", "5", "/", ",", "/", "3", "/">>
Str_p4_1 == <<"/", "4", "/", "+", "1">>
Str_pline_p9 == <<"/", "l", "i", "n", "e", "/", "+", "+", ",", "/", "9", "/">>
Str_5_pp == <<"5", ",", "+", "+">>

OnTenLines == lines = ten_lines.lines

----------------------------------------------------------------------------
\* The last iteration resolved a line that is not a line of the document.
C1_OutOfBounds == start_idx \notin 1..Len(lines) \/ end_idx \notin 1..Len(lines)

(* C1: for a document of N lines, an expression whose resolved start or    *)
(* end line lies outside 1..N fails with the bounds error, which names the *)
(* offending line and the range 1-N, and no document is returned.          *)
C1_BoundsChecked ==
    (pc \in {"returned", "raised"} /\ StepOk /\ C1_OutOfBounds) =>
        /\ pc = "raised"
        /\ result = None
        /\ error[1].kind = "Address outside of range"
        /\ error[1].value \in {start_idx, end_idx} \ (1..Len(lines))
        /\ error[1].last = Len(lines)

----------------------------------------------------------------------------
(* C2: select(e), when it does not fail, returns a document whose lines    *)
(* are exactly the original lines start_line..end_line, in order:          *)
(* end_line - start_line + 1 of them, each index inside 0..n-1, nothing    *)
(* truncated, nothing wrapped around, no other line.                       *)
C2_ExactLines ==
    (pc = "returned" /\ pos = 1) =>
        /\ \A n \in 1..Len(numbers) : numbers[n] \in 0..(Len(lines) - 1)
        /\ Len(result[1].lines) = end_idx - start_idx + 1
        /\ result[1].lines = SubSeq(lines, start_idx, end_idx)

----------------------------------------------------------------------------
(* C3: the expressions are resolved left to right against one cursor that  *)
(* starts at 0; after each expression the cursor is its end line (its      *)
(* start line when it has one address); the next start address is resolved *)
(* with that cursor, a pattern being found strictly after it; the result   *)
(* is the concatenation of the expressions' indices in order.  On the ten  *)
(* lines, select("/4/+1", "/line/++,/9/") gives lines 5, 8, 9.            *)
C3_CursorThreading ==
    /\ (pc = "loop" /\ pos = 0) => (start = 0 /\ numbers = <<>>)
    /\ StepOk =>
          /\ numbers = RefAll(lines, range_exprs).indices
          /\ start = end_idx
          /\ start = RefAll(lines, range_exprs).cursor
          /\ LastRange.end = None => end_idx = start_idx
          /\ LastRange.start.regex # None =>
                start_idx - LastRange.start.delta > CursorIn
    /\ (OnTenLines /\ pc = "returned" /\ range_exprs = <<Str_p4_1, Str_pline_p9>>) =>
          /\ numbers = <<4, 7, 8>>
          /\ result[1].lines = <<lines[5], lines[8], lines[9]>>

\* The second expression of a call was resolved from the cursor the first
\* one left, a pattern among them.
C3_Witness ==
    /\ OnTenLines /\ pc = "returned"
    /\ range_exprs = <<Str_p4_1, Str_pline_p9>>
    /\ numbers = <<4, 7, 8>>

----------------------------------------------------------------------------
----------------------------------------------------------------------------
(* C5: a range of two addresses with "," whose end address is relative is  *)
(* rejected: with the "invalid range" error citing the expression,         *)
(* whatever line the start address resolves to (a start pattern that is    *)
(* not found raises its own error first); with ";" the same end address    *)
(* is accepted: no such error, and the range succeeds when its delta is    *)
(* not negative.                                                           *)
C5_RelativeEnd ==
    ( /\ pos >= 1 /\ pc # "idle"
      /\ TwoAddresses
      /\ is_relative(LastRange.end[1]) ) =>
        IF LastRange.from0
        THEN /\ StepRaised
             /\ result = None
             /\ numbers = NumbersIn
             /\ IF LastLines.s_error = None
                THEN error = Some([kind |-> "Invalid range", text |-> LastExpr])
                ELSE /\ error = LastLines.s_error
                     /\ error[1].kind = "Pattern not found"
                     /\ LastRange.start.regex # None
        ELSE /\ error # None => error[1].kind # "Invalid range"
             /\ (LastLines.s_error = None /\ LastRange.end[1].delta >= 0) => StepOk

\* "5,++" was rejected on the ten lines, after an expression that succeeded.
C5_Witness ==
    /\ OnTenLines /\ pos = 2 /\ StepRaised
    /\ LastExpr = Str_5_pp
    /\ error = Some([kind |-> "Invalid range", text |-> Str_5_pp])
    /\ start_idx = 5

----------------------------------------------------------------------------
\* The lines after the cursor c the regex is found in.
C6_Matches(c, regex) == {j \in 1..Len(lines) : j > c /\ Search(regex, lines[j])}

(* C6: a pattern address resolved with the cursor c is the number of the   *)
(* first line among c+1..N the pattern is found in, plus the delta; no     *)
(* line at or before the cursor matches and the search does not wrap; when *)
(* no line after the cursor matches, the "pattern not found" error names   *)
(* the pattern.                                                            *)
C6_PatternAfterCursor ==
    ( /\ pos >= 1 /\ pc \in {"returned", "raised"}
      /\ LastParse.error = None
      /\ LastRange.start.regex # None ) =>
        IF C6_Matches(CursorIn, LastRange.start.regex[1]) = {}
        THEN /\ StepRaised
             /\ error = Some([kind |-> "Pattern not found",
                              text |-> LastRange.start.regex[1]])
        ELSE /\ LastLines.s_error = None
             /\ LastLines.s = Min(C6_Matches(CursorIn, LastRange.start.regex[1]))
                                + LastRange.start.delta

----------------------------------------------------------------------------
\* The expression fails when resolved with the cursor c.
C7_Fails(range_expr, c) ==
    LET p == RangeParse(range_expr)
        l == RefLines(lines, p.r, c)
    IN  \/ p.error # None
        \/ l.s_error # None
        \/ p.r.end # None /\ is_relative(p.r.end[1]) /\ p.r.from0
        \/ p.r.end # None /\ (l.e_error # None \/ l.s > l.e)

C7_State ==
    /\ error # None => (pc = "raised" /\ result = None)
    /\ pc = "raised" => (error # None /\ result = None)
    /\ (pos >= 1 /\ pc # "idle" /\ C7_Fails(LastExpr, CursorIn)) =>
          (StepRaised /\ result = None /\ numbers = NumbersIn)
    /\ pc = "returned" => (result # None /\ error = None)

C7_Step == pc # "returned" => (text' = text /\ lines' = lines)

----------------------------------------------------------------------------
(* C8: every document made from a text, from lines or by a selection has   *)
(* text = the concatenation of its lines; so from_lines(d.lines).text =    *)
(* d.text.                                                                 *)
C8_TextIsLines ==
    /\ text = Join(lines)
    /\ from_lines(lines).text = text
    /\ result # None =>
          /\ result[1].text = Join(result[1].lines)
          /\ from_lines(result[1].lines).text = result[1].text

\* A selection whose lines are not the lines its text splits into, taken
\* from a document made from a text.
C8_Witness ==
    /\ pc = "returned" /\ pos = 2
    /\ lines = splitlines(text)
    /\ result[1].lines # splitlines(result[1].text)
    /\ "\r" \in {text[n] : n \in 1..Len(text)}

----------------------------------------------------------------------------
\* The base of a relative address resolved with the cursor c.
C10_Base(c) == IF c > 0 THEN c ELSE 1

(* C10: the end address of a range is resolved with the start line as      *)
(* cursor after ";" and with 1 after ",", whatever cursor the call         *)
(* carried; a relative address resolves to (cursor if cursor > 0 else 1)   *)
(* + delta; so "s;+k" is the lines start_line..start_line+k and "s;/p/"    *)
(* ends after its start line.                                              *)
C10_EndAnchor ==
    (pc = "returned" /\ pos >= 1 /\ TwoAddresses) =>
        /\ (is_relative(LastRange.end[1]) /\ ~LastRange.from0) =>
              /\ end_idx = C10_Base(start_idx) + LastRange.end[1].delta
              /\ numbers = NumbersIn \o Run(start_idx - 1, end_idx - 1)
        /\ (LastRange.end[1].regex # None /\ LastRange.end[1].delta = 0
              /\ ~LastRange.from0) => end_idx > start_idx
        /\ is_relative(LastRange.start) =>
              start_idx = C10_Base(CursorIn) + LastRange.start.delta

----------------------------------------------------------------------------
(* Range.parse called directly on every short string.                      *)

\* The characters of the strings handed to Range.parse.
ExprChars == {"1", "/", "a", "$", ".", "+", "-", " ", ",", ";"}

Strings(n) == UNION {[1..m -> ExprChars] : m \in 0..n}

Idle ==
    /\ text = <<>> /\ lines = <<>> /\ range_exprs = <<>> /\ pos = 0
    /\ numbers = <<>> /\ start = 0 /\ start_idx = 0 /\ end_idx = 0
    /\ error = None /\ result = None

InitParse ==
    /\ Idle
    /\ pc = "parse"
    /\ expr \in Strings(MaxLen)
    /\ parsed = None

ParseRange ==
    /\ pc = "parse"
    /\ parsed' = Some(RangeParse(expr))
    /\ pc' = "parsed"
    /\ UNCHANGED <<text, lines, range_exprs, pos, numbers, start, start_idx,
                   end_idx, error, result, expr>>

NextParse == ParseRange

SpecParse == InitParse /\ [][NextParse]_vars

----------------------------------------------------------------------------
\* The character after the start address, "" when nothing is left.
C9_Sep(a) == IF a.rest = <<>> THEN "" ELSE a.rest[1]

(* C9: Range.parse consumes its whole input or fails.  After the start     *)
(* address, nothing left gives a range of one address; otherwise the next  *)
(* character is "," (from0) or ";" (not from0), and any other is the       *)
(* "invalid range" error citing the whole input; text left after the end   *)
(* address is the "invalid range tail" error citing that text.  No Range   *)
(* is returned with input left over.                                       *)
C9_WholeInput ==
    pc = "parsed" =>
        LET out == parsed[1]
            a == AddrParse(expr)
            b == AddrParse(Tail(a.rest))
        IN  /\ out.error = None => out.rest = <<>>
            /\ a.error # None => out.error = a.error
            /\ a.error = None =>
                 CASE C9_Sep(a) = "" ->
                        /\ out.error = None
                        /\ out.r = [start |-> a.addr, end |-> None, from0 |-> TRUE]
                   [] C9_Sep(a) \in {",", ";"} ->
                        IF b.error # None THEN out.error = b.error
                        ELSE IF b.rest # <<>>
                        THEN out.error = Some([kind |-> "Invalid range tail",
                                               text |-> b.rest])
                        ELSE /\ out.error = None
                             /\ out.r = [start |-> a.addr, end |-> Some(b.addr),
                                         from0 |-> (C9_Sep(a) = ",")]
                   [] OTHER ->
                        out.error = Some([kind |-> "Invalid range", text |-> expr])
            /\ expr = <<"1", "a">> =>
                 out.error = Some([kind |-> "Invalid range", text |-> expr])
            /\ expr = <<"1", ",", "1", "a">> =>
                 out.error = Some([kind |-> "Invalid range tail", text |-> <<"a">>])
            /\ expr = <<"1", ";", "1">> => (out.error = None /\ ~out.r.from0)

\* Text was left after the end address of a range with ";".
C9_Witness ==
    /\ pc = "parsed"
    /\ parsed[1].error # None
    /\ parsed[1].error[1].kind = "Invalid range tail"
    /\ parsed[1].r.end # None /\ ~parsed[1].r.from0
    /\ Len(parsed[1].error[1].text) < Len(expr)

====
